---- MODULE Spec2Model ----
(***************************************************************************)
(* The Dockerfile layer analyzer (package dockerlayers): line assembly,    *)
(* instruction parsing, the descriptor table and the stage/report builder. *)
(* A Go string is a sequence of one-character strings, so that trimming,   *)
(* prefix tests, case folding and field splitting are computed as the      *)
(* code computes them.  A nil pointer or nil error is the empty sequence,  *)
(* a non-nil one a sequence holding the one value.                         *)
(***************************************************************************)
EXTENDS Integers, Sequences, FiniteSets, TLC

VARIABLES
    file,             \* the physical lines bufio.Scanner yields, in order
    line,             \* readInstructions: loop variable `line`
    current,          \* readInstructions: strings.Builder `current`
    currentLine,      \* readInstructions: `currentLine`
    rawInstructions,  \* readInstructions: `instructions` / analyzeDockerfile: `rawInstructions`
    instructions,     \* analyzeDockerfile: `instructions`
    pos,              \* analyzeDockerfile: position of the range loop over `instructions`
    stageIndex,       \* analyzeDockerfile: `stageIndex`
    stageAliases,     \* analyzeDockerfile: `stageAliases`
    rep,              \* analyzeDockerfile: `rep`
    ret,              \* returned *report (<<>> is nil)
    err,              \* returned error (<<>> is nil)
    pc                \* "read", "parse", "build", "done"

vars == <<file, line, current, currentLine, rawInstructions, instructions,
          pos, stageIndex, stageAliases, rep, ret, err, pc>>

(***************************************************************************)
(* Bounds of the model.                                                    *)
(***************************************************************************)
MaxLines == 3

MaxLexLines == 3

MaxRefLines == 3

MaxLiveLines == 3

(***************************************************************************)
(* strings / unicode / fmt helpers.                                        *)
(***************************************************************************)
\* unicode.IsSpace on the characters a scanned line can hold
IsSpace(c) == c \in {" ", "\t", "\r", "\f"}

Lowers == <<"a","b","c","d","e","f","g","h","i","j","k","l","m","n","o","p","q","r","s","t","u","v","w","x","y","z">>

Uppers == <<"A","B","C","D","E","F","G","H","I","J","K","L","M","N","O","P","Q","R","S","T","U","V","W","X","Y","Z">>

Digits == <<"0","1","2","3","4","5","6","7","8","9">>

upperChar(c) ==
    IF \E i \in 1..Len(Lowers) : Lowers[i] = c
    THEN Uppers[CHOOSE i \in 1..Len(Lowers) : Lowers[i] = c]
    ELSE c

lowerChar(c) ==
    IF \E i \in 1..Len(Uppers) : Uppers[i] = c
    THEN Lowers[CHOOSE i \in 1..Len(Uppers) : Uppers[i] = c]
    ELSE c

ToUpper(s) == [i \in 1..Len(s) |-> upperChar(s[i])]

ToLower(s) == [i \in 1..Len(s) |-> lowerChar(s[i])]

EqualFold(s, t) == ToLower(s) = ToLower(t)

SetMin(S) == CHOOSE x \in S : \A y \in S : x <= y

SetMax(S) == CHOOSE x \in S : \A y \in S : y <= x

TrimSpace(s) ==
    LET keep == {i \in 1..Len(s) : ~IsSpace(s[i])}
    IN  IF keep = {} THEN <<>> ELSE SubSeq(s, SetMin(keep), SetMax(keep))

HasPrefix(s, p) == Len(s) >= Len(p) /\ SubSeq(s, 1, Len(p)) = p

HasSuffix(s, p) == Len(s) >= Len(p) /\ SubSeq(s, Len(s) - Len(p) + 1, Len(s)) = p

TrimPrefix(s, p) == IF HasPrefix(s, p) THEN SubSeq(s, Len(p) + 1, Len(s)) ELSE s

TrimSuffix(s, p) == IF HasSuffix(s, p) THEN SubSeq(s, 1, Len(s) - Len(p)) ELSE s

Contains(s, sub) ==
    \E i \in 1..(Len(s) - Len(sub) + 1) : SubSeq(s, i, i + Len(sub) - 1) = sub

\* strings.IndexFunc(s, unicode.IsSpace): 0-based index of the first space, or -1
IndexSpace(s) ==
    LET sp == {i \in 1..Len(s) : IsSpace(s[i])}
    IN  IF sp = {} THEN -1 ELSE SetMin(sp) - 1

RECURSIVE Fields(_)
Fields(s) ==
    LET keep == {i \in 1..Len(s) : ~IsSpace(s[i])}
    IN  IF keep = {} THEN <<>>
        ELSE LET t == SubSeq(s, SetMin(keep), Len(s))
                 n == IndexSpace(t)
             IN  IF n = -1 THEN <<t>>
                 ELSE <<SubSeq(t, 1, n)>> \o Fields(SubSeq(t, n + 1, Len(t)))

\* fmt.Sprintf("%d", n) for n >= 0
RECURSIVE Itoa(_)
Itoa(n) ==
    IF n < 10 THEN <<Digits[n + 1]>>
    ELSE Itoa(n \div 10) \o <<Digits[(n % 10) + 1]>>

\* fmt.Sprintf / fmt.Errorf / errors.New: the format and its rendered arguments
Sprintf(format, args) == [fmt |-> format, args |-> args]

\* map[string]int
EmptyMap == [k \in {} |-> 0]

MapSet(m, k, v) == [x \in (DOMAIN m) \cup {k} |-> IF x = k THEN v ELSE m[x]]

(***************************************************************************)
(* Keywords and the descriptor table.                                      *)
(***************************************************************************)
effectStageStart == "stage start"

effectFilesystem == "filesystem layer"

effectMetadata == "metadata"

effectBuildArg == "build arg"

kwFROM == <<"F","R","O","M">>

kwARG == <<"A","R","G">>

kwCOPY == <<"C","O","P","Y">>

kwADD == <<"A","D","D">>

kwRUN == <<"R","U","N">>

descriptor(effect, explanation, cacheHint) ==
    [Effect |-> effect, Explanation |-> explanation, CacheHint |-> cacheHint]

instructionDescriptors ==
    <<
      [key |-> <<"F","R","O","M">>,
       desc |-> descriptor(effectStageStart,
           "Starts a stage and pulls the referenced base image. Any cache from previous stages is discarded.",
           "Invalidates when the base image digest or flags like --platform change.")],
      [key |-> <<"R","U","N">>,
       desc |-> descriptor(effectFilesystem,
           "Executes a shell command inside an intermediate container and commits the result as a new, immutable layer.",
           "Cache key is the command text plus every file the command reads. Changing any of them busts the cache.")],
      [key |-> <<"C","O","P","Y">>,
       desc |-> descriptor(effectFilesystem,
           "Copies files into the image and creates a new layer with their contents.",
           "Any change in the source files or flags invalidates this layer's cache entry.")],
      [key |-> <<"A","D","D">>,
       desc |-> descriptor(effectFilesystem,
           "Behaves like COPY but also accepts remote URLs and auto-extracts tar archives, all of which produce new layers.",
           "Cache depends on the archive/URL content as well as the instruction text.")],
      [key |-> <<"C","M","D">>,
       desc |-> descriptor(effectMetadata,
           "Sets the default command for containers created from the image. No filesystem changes occur.",
           "Cache is tied to the instruction text only.")],
      [key |-> <<"E","N","T","R","Y","P","O","I","N","T">>,
       desc |-> descriptor(effectMetadata,
           "Defines the executable that always runs when a container starts.",
           "Cache is tied to the instruction text only.")],
      [key |-> <<"E","N","V">>,
       desc |-> descriptor(effectMetadata,
           "Persists environment variables into image metadata for future instructions and containers.",
           "Any variable value change invalidates the cache for this step and later steps.")],
      [key |-> <<"A","R","G">>,
       desc |-> descriptor(effectBuildArg,
           "Defines build-time arguments. The value can influence cache keys but does not end up in the final image runtime environment.",
           "Changing build args invalidates the layer that consumes them.")],
      [key |-> <<"W","O","R","K","D","I","R">>,
       desc |-> descriptor(effectMetadata,
           "Sets the working directory for subsequent instructions, recorded as metadata.",
           "Cache busts only when the path changes.")],
      [key |-> <<"U","S","E","R">>,
       desc |-> descriptor(effectMetadata,
           "Configures the user/group used for following instructions and containers.",
           "Cache busts when the user specification changes.")],
      [key |-> <<"L","A","B","E","L">>,
       desc |-> descriptor(effectMetadata,
           "Adds metadata key/value pairs to the image manifest without touching the filesystem.",
           "Cache invalidates when a label changes.")],
      [key |-> <<"E","X","P","O","S","E">>,
       desc |-> descriptor(effectMetadata,
           "Documents which ports containers are expected to listen on. Pure metadata.",
           "Cache invalidates when the exposed ports change.")],
      [key |-> <<"V","O","L","U","M","E">>,
       desc |-> descriptor(effectMetadata,
           "Declares mount points that become anonymous volumes at runtime.",
           "Cache depends only on the instruction text.")],
      [key |-> <<"H","E","A","L","T","H","C","H","E","C","K">>,
       desc |-> descriptor(effectMetadata,
           "Stores a command for Docker to probe container health. No filesystem changes.",
           "Cache invalidates when the command or interval flags change.")],
      [key |-> <<"S","T","O","P","S","I","G","N","A","L">>,
       desc |-> descriptor(effectMetadata,
           "Configures which signal Docker sends to stop the container.",
           "Cache depends on the instruction text.")],
      [key |-> <<"S","H","E","L","L">>,
       desc |-> descriptor(effectMetadata,
           "Overrides the default shell that RUN and similar instructions use.",
           "Cache invalidates when the shell definition changes.")],
      [key |-> <<"O","N","B","U","I","L","D">>,
       desc |-> descriptor(effectMetadata,
           "Registers a trigger that fires when the current image is used as a base in another Dockerfile.",
           "Cache ties to the trigger content.")],
      [key |-> <<"M","A","I","N","T","A","I","N","E","R">>,
       desc |-> descriptor(effectMetadata,
           "Deprecated metadata about the author. Included here for completeness.",
           "Cache invalidates when the value changes.")]
    >>

descriptorFallback ==
    descriptor(effectMetadata,
        "Recorded as metadata. It influences how containers start but does not add filesystem content.",
        "Cache key ties to the literal instruction, so changing text invalidates the layer.")

\* mutant: an unknown keyword is refused the metadata fallback
descriptorForUnknownAsFilesystem(keyword) ==
    IF \E i \in 1..Len(instructionDescriptors) : instructionDescriptors[i].key = keyword
    THEN instructionDescriptors[CHOOSE i \in 1..Len(instructionDescriptors) :
                                    instructionDescriptors[i].key = keyword].desc
    ELSE descriptor(effectFilesystem, descriptorFallback.Explanation,
                    descriptorFallback.CacheHint)

descriptorFor(keyword) ==
    IF \E i \in 1..Len(instructionDescriptors) : instructionDescriptors[i].key = keyword
    THEN instructionDescriptors[CHOOSE i \in 1..Len(instructionDescriptors) :
                                    instructionDescriptors[i].key = keyword].desc
    ELSE descriptorFallback

(***************************************************************************)
(* Line assembly and instruction parsing.                                  *)
(***************************************************************************)
rawInstruction(l, t) == [line |-> l, text |-> t]

parsedInstruction(l, keyword, args, raw) ==
    [Line |-> l, Keyword |-> keyword, Args |-> args, Raw |-> raw]

\* mutant: the keyword keeps the case it was written in
parseInstructionKeepCase(raw) ==
    LET trimmed == TrimSpace(raw.text)
        idx == IndexSpace(trimmed)
    IN  IF trimmed = <<>> THEN parsedInstruction(0, <<>>, <<>>, <<>>)
        ELSE IF idx = -1
             THEN parsedInstruction(raw.line, trimmed, <<>>, trimmed)
             ELSE parsedInstruction(raw.line, SubSeq(trimmed, 1, idx),
                                    TrimSpace(SubSeq(trimmed, idx + 1, Len(trimmed))),
                                    trimmed)

parseInstruction(raw) ==
    LET trimmed == TrimSpace(raw.text)
        idx == IndexSpace(trimmed)
    IN  IF trimmed = <<>> THEN parsedInstruction(0, <<>>, <<>>, <<>>)
        ELSE IF idx = -1
             THEN parsedInstruction(raw.line, ToUpper(trimmed), <<>>, trimmed)
             ELSE parsedInstruction(raw.line, ToUpper(SubSeq(trimmed, 1, idx)),
                                    TrimSpace(SubSeq(trimmed, idx + 1, Len(trimmed))),
                                    trimmed)

\* mutant: the text in front of the backslash is not trimmed
stripContinuationNoTrim(l) ==
    IF HasSuffix(l, <<"\\">>)
    THEN [linePart |-> TrimSuffix(l, <<"\\">>), carries |-> TRUE]
    ELSE [linePart |-> l, carries |-> FALSE]

stripContinuation(l) ==
    IF HasSuffix(l, <<"\\">>)
    THEN [linePart |-> TrimSpace(TrimSuffix(l, <<"\\">>)), carries |-> TRUE]
    ELSE [linePart |-> l, carries |-> FALSE]

\* mutant: any # starts a comment
removeInlineCommentAnyHash(l) ==
    LET hits == {i \in 1..Len(l) : l[i] = "#"}
    IN  IF hits = {} THEN l ELSE TrimSpace(SubSeq(l, 1, SetMin(hits) - 1))

removeInlineComment(l) ==
    LET hits == {i \in 1..Len(l) : l[i] = "#" /\ (i = 1 \/ IsSpace(l[i - 1]))}
    IN  IF hits = {} THEN l ELSE TrimSpace(SubSeq(l, 1, SetMin(hits) - 1))

(***************************************************************************)
(* FROM and COPY arguments.                                                *)
(***************************************************************************)
\* mutant: leading flags are not skipped
parseFromNoFlagSkip(args) ==
    LET tokens == Fields(args)
    IN  IF Len(tokens) = 0 THEN [base |-> <<>>, alias |-> <<>>]
        ELSE [base |-> tokens[1],
              alias |-> IF 3 <= Len(tokens) /\ EqualFold(tokens[2], <<"A","S">>)
                        THEN tokens[3] ELSE <<>>]

\* mutant: the alias is read after any AS that follows the base image
parseFromAnyAs(args) ==
    LET tokens == Fields(args)
        rest == {i \in 1..Len(tokens) : ~HasPrefix(tokens[i], <<"-","-">>)}
    IN  IF Len(tokens) = 0 \/ rest = {} THEN [base |-> <<>>, alias |-> <<>>]
        ELSE LET b == SetMin(rest)
                 as == {i \in (b + 1)..(Len(tokens) - 1) : EqualFold(tokens[i], <<"A","S">>)}
             IN  [base |-> tokens[b],
                  alias |-> IF as # {} THEN tokens[SetMin(as) + 1] ELSE <<>>]

parseFrom(args) ==
    LET tokens == Fields(args)
        rest == {i \in 1..Len(tokens) : ~HasPrefix(tokens[i], <<"-","-">>)}
    IN  IF Len(tokens) = 0 \/ rest = {} THEN [base |-> <<>>, alias |-> <<>>]
        ELSE LET b == SetMin(rest)
             IN  [base |-> tokens[b],
                  alias |-> IF b + 2 <= Len(tokens) /\ EqualFold(tokens[b + 1], <<"A","S">>)
                            THEN tokens[b + 2] ELSE <<>>]

\* mutant: only the --from=<ref> form is recognised
detectCopySourceStageEqualsOnly(args) ==
    LET tokens == Fields(args)
        hits == {i \in 1..Len(tokens) : HasPrefix(tokens[i], <<"-","-","f","r","o","m","=">>)}
    IN  IF hits = {} THEN <<>>
        ELSE TrimPrefix(tokens[SetMin(hits)], <<"-","-","f","r","o","m","=">>)

detectCopySourceStage(args) ==
    LET tokens == Fields(args)
        hits == {i \in 1..Len(tokens) :
                    \/ HasPrefix(tokens[i], <<"-","-","f","r","o","m","=">>)
                    \/ (tokens[i] = <<"-","-","f","r","o","m">> /\ i + 1 <= Len(tokens))}
    IN  IF hits = {} THEN <<>>
        ELSE LET i == SetMin(hits)
             IN  IF HasPrefix(tokens[i], <<"-","-","f","r","o","m","=">>)
                 THEN TrimPrefix(tokens[i], <<"-","-","f","r","o","m","=">>)
                 ELSE tokens[i + 1]

\* mutant: the resolved stage is printed counting from one
copyNotesOneBased(args, aliases) ==
    LET source == detectCopySourceStage(args)
        lowered == ToLower(source)
    IN  IF source = <<>>
        THEN <<Sprintf("Takes files from the build context, so editing those files will invalidate this layer.", <<>>)>>
        ELSE IF lowered \in DOMAIN aliases
             THEN <<Sprintf("Copies from stage %d (%s). Cache depends on that stage's output instead of local files.",
                            <<Itoa(aliases[lowered] + 1), source>>)>>
             ELSE <<Sprintf("Copies from %q. Make sure the stage or image exists.", <<source>>)>>

copyNotes(args, aliases) ==
    LET source == detectCopySourceStage(args)
        lowered == ToLower(source)
    IN  IF source = <<>>
        THEN <<Sprintf("Takes files from the build context, so editing those files will invalidate this layer.", <<>>)>>
        ELSE IF lowered \in DOMAIN aliases
             THEN <<Sprintf("Copies from stage %d (%s). Cache depends on that stage's output instead of local files.",
                            <<Itoa(aliases[lowered]), source>>)>>
             ELSE <<Sprintf("Copies from %q. Make sure the stage or image exists.", <<source>>)>>

(***************************************************************************)
(* Report construction.                                                    *)
(***************************************************************************)
buildLayer(inst, desc, extraNotes) ==
    [Number |-> 0, Instruction |-> inst, Effect |-> desc.Effect,
     Explanation |-> desc.Explanation, CacheHint |-> desc.CacheHint,
     Notes |-> extraNotes]

stageReport(index) ==
    [Stage |-> [Index |-> index, Name |-> <<>>, Base |-> <<>>],
     Layers |-> <<>>, FsLayers |-> 0, MetadataLayers |-> 0, BuildArgs |-> 0]

\* mutant: the appended stage is numbered from one
RECURSIVE growStagesOneBased(_, _)
growStagesOneBased(stages, index) ==
    IF Len(stages) <= index
    THEN growStagesOneBased(Append(stages, <<stageReport(Len(stages) + 1)>>), index)
    ELSE stages

RECURSIVE growStages(_, _)
growStages(stages, index) ==
    IF Len(stages) <= index
    THEN growStages(Append(stages, <<stageReport(Len(stages))>>), index)
    ELSE stages

\* the report after ensureStage(rep, index); the stage returned is Stages[index + 1][1]
ensureStage(r, index) ==
    LET grown == growStages(r.Stages, index)
    IN  IF grown[index + 1] = <<>>
        THEN [r EXCEPT !.Stages = [grown EXCEPT ![index + 1] = <<stageReport(index)>>]]
        ELSE [r EXCEPT !.Stages = grown]

fullPath == <<"/","w","/","D","o","c","k","e","r","f","i","l","e">>

emptyReport == [FilePath |-> fullPath, Global |-> <<>>, Stages |-> <<>>]

(***************************************************************************)
(* Inputs.                                                                 *)
(***************************************************************************)
BuildLines ==
    { <<"F","R","O","M"," ","a"," ","A","S"," ","B">>,
      <<"F","R","O","M"," ","b">>,
      <<"F","R","O","M"," ","-","-","p"," ","c"," ","A","S"," ","0">>,
      <<"F","R","O","M"," ","-","-","p">>,
      <<"F","R","O","M">>,
      <<"A","R","G"," ","V">>,
      <<"R","U","N"," ","x">>,
      <<"C","O","P","Y"," ","-","-","f","r","o","m","=","b"," ","s"," ","d">>,
      <<"C","O","P","Y"," ","-","-","f","r","o","m","=","0"," ","s"," ","d">>,
      <<"C","O","P","Y"," ","s"," ","d">>,
      <<"C","M","D"," ","x">>,
      <<"C","H","E","C","K","P","O","I","N","T"," ","x">> }

LexLines ==
    { <<>>,
      <<"#"," ","c">>,
      <<"\\">>,
      <<"R","U","N"," ","a"," ","\\">>,
      <<"F","R","O","M"," ","a">>,
      <<" "," ","b","\t">>,
      <<"R","U","N"," ","a"," ","#"," ","n"," ","\\">>,
      <<"R","U","N"," ","a"," ","\\"," ","#"," ","n">>,
      <<"A","D","D"," ","u","#","f"," ","d">>,
      <<"A","D","D"," ","u","#","f"," ","#","n">> }

\* lines exercising keyword case, FROM arguments and COPY source references
RefLines ==
    { <<"f","r","o","m"," ","a"," ","a","s"," ","x">>,
      <<"F","R","O","M"," ","a"," ","b"," ","A","S"," ","c">>,
      <<"F","R","O","M"," ","b"," ","A","S">>,
      <<"F","R","O","M"," ","-","-","p"," ","b"," ","A","S"," ","Y">>,
      <<"C","O","P","Y"," ","-","-","f","r","o","m"," ","x"," ","s">>,
      <<"C","O","P","Y"," ","-","-","f","r","o","m","=","x"," ","s">>,
      <<"C","O","P","Y"," ","-","-","f","r","o","m","=","y"," ","s">>,
      <<"C","O","P","Y"," ","s"," ","-","-","f","r","o","m">>,
      <<"c","o","p","y","\t","-","-","f","r","o","m","=","X"," "," ","s">>,
      <<"C","O","P","Y"," ","s"," ","d">>,
      <<"R","U","N">> }

\* lines that reach each way a run can end
LiveLines ==
    { <<"#">>,
      <<"R"," ","\\">>,
      <<"F","R","O","M"," ","a">> }

Files(lines, n) == UNION {[1..k -> lines] : k \in 0..n}

\* the single-stage and the multi-stage Dockerfile analysed as whole files
ScenarioA ==
    << <<"A","R","G"," ","G","L","O","B","A","L","_","V","E","R","S","I","O","N","=","3",".","1","8">>,
       <<"F","R","O","M"," ","a","l","p","i","n","e",":","$","{","G","L","O","B","A","L","_","V","E","R","S","I","O","N","}">>,
       <<"R","U","N"," ","a","p","k"," ","a","d","d"," ","-","-","n","o","-","c","a","c","h","e"," ","c","u","r","l">>,
       <<"C","O","P","Y"," ","."," ","/","a","p","p">>,
       <<"W","O","R","K","D","I","R"," ","/","a","p","p">>,
       <<"C","M","D"," ","[","\"",".","/","r","u","n","\"","]">> >>

ScenarioB ==
    << <<"F","R","O","M"," ","g","o","l","a","n","g",":","1",".","2","2"," ","A","S"," ","b","a","s","e">>,
       <<"F","R","O","M"," ","b","a","s","e"," ","A","S"," ","b","u","i","l","d","e","r">>,
       <<"A","R","G"," ","V","E","R","S","I","O","N","=","1",".","0">>,
       <<"C","O","P","Y"," ","-","-","f","r","o","m","=","b","a","s","e"," ","/","s","r","c"," ","/","s","r","c">>,
       <<"F","R","O","M"," ","s","c","r","a","t","c","h">>,
       <<"C","O","P","Y"," ","-","-","f","r","o","m","=","b","u","i","l","d","e","r"," ","/","b","i","n","/","a","p","p"," ","/","b","i","n","/","a","p","p">>,
       <<"E","N","T","R","Y","P","O","I","N","T"," ","[","\"","/","b","i","n","/","a","p","p","\"","]">> >>

ScenarioFiles == {ScenarioA, ScenarioB}

(***************************************************************************)
(* The state machine of analyzeDockerfile.                                 *)
(***************************************************************************)
InitLocals ==
    /\ line = 1
    /\ current = <<>>
    /\ currentLine = 0
    /\ rawInstructions = <<>>
    /\ instructions = <<>>
    /\ pos = 1
    /\ stageIndex = -1
    /\ stageAliases = EmptyMap
    /\ rep = emptyReport
    /\ ret = <<>>
    /\ err = <<>>
    /\ pc = "read"

Init == file \in (Files(BuildLines, MaxLines) \cup ScenarioFiles) /\ InitLocals

InitLex == file \in Files(LexLines, MaxLexLines) /\ InitLocals

InitRef == file \in Files(RefLines, MaxRefLines) /\ InitLocals

InitLive == file \in Files(LiveLines, MaxLiveLines) /\ InitLocals

\* mutant: the report built so far is returned along with the error
FailWithPartialReport(e) == ret' = <<rep>> /\ err' = <<e>> /\ pc' = "done"

\* return nil, e
Fail(e) == ret' = <<>> /\ err' = <<e>> /\ pc' = "done"

\* mutant: the continuation suffix is looked for before the comment is stripped
ScanLineContinuationFirst ==
    /\ pc = "read"
    /\ line <= Len(file)
    /\ line' = line + 1
    /\ LET text == file[line]
           trimmed == TrimSpace(text)
           sc == stripContinuation(trimmed)
           part == removeInlineComment(sc.linePart)
           written == (IF Len(current) = 0 THEN current ELSE current \o <<" ">>)
                          \o part
       IN  IF trimmed = <<>> \/ HasPrefix(trimmed, <<"#">>)
           THEN UNCHANGED <<current, currentLine, rawInstructions>>
           ELSE /\ currentLine' = IF Len(current) = 0 THEN line ELSE currentLine
                /\ IF sc.carries
                   THEN current' = written /\ UNCHANGED rawInstructions
                   ELSE /\ rawInstructions' =
                              Append(rawInstructions, rawInstruction(currentLine', written))
                        /\ current' = <<>>
    /\ UNCHANGED <<file, instructions, pos, stageIndex, stageAliases, rep, ret, err, pc>>

\* mutant: a skipped line is read again
ScanLineNoAdvance ==
    /\ pc = "read"
    /\ line <= Len(file)
    /\ LET text == file[line]
           trimmed == TrimSpace(text)
           lineWithoutInlineComment == removeInlineComment(trimmed)
           sc == stripContinuation(lineWithoutInlineComment)
           written == (IF Len(current) = 0 THEN current ELSE current \o <<" ">>)
                          \o sc.linePart
       IN  IF trimmed = <<>> \/ HasPrefix(trimmed, <<"#">>) \/ lineWithoutInlineComment = <<>>
           THEN UNCHANGED <<line, current, currentLine, rawInstructions>>
           ELSE /\ line' = line + 1
                /\ currentLine' = IF Len(current) = 0 THEN line ELSE currentLine
                /\ IF sc.carries
                   THEN current' = written /\ UNCHANGED rawInstructions
                   ELSE /\ rawInstructions' =
                              Append(rawInstructions, rawInstruction(currentLine', written))
                        /\ current' = <<>>
    /\ UNCHANGED <<file, instructions, pos, stageIndex, stageAliases, rep, ret, err, pc>>

\* one iteration of the scanner loop of readInstructions
ScanLine ==
    /\ pc = "read"
    /\ line <= Len(file)
    /\ line' = line + 1
    /\ LET text == file[line]
           trimmed == TrimSpace(text)
           lineWithoutInlineComment == removeInlineComment(trimmed)
           sc == stripContinuation(lineWithoutInlineComment)
           written == (IF Len(current) = 0 THEN current ELSE current \o <<" ">>)
                          \o sc.linePart
       IN  IF trimmed = <<>> \/ HasPrefix(trimmed, <<"#">>) \/ lineWithoutInlineComment = <<>>
           THEN UNCHANGED <<current, currentLine, rawInstructions>>
           ELSE /\ currentLine' = IF Len(current) = 0 THEN line ELSE currentLine
                /\ IF sc.carries
                   THEN current' = written /\ UNCHANGED rawInstructions
                   ELSE /\ rawInstructions' =
                              Append(rawInstructions, rawInstruction(currentLine', written))
                        /\ current' = <<>>
    /\ UNCHANGED <<file, instructions, pos, stageIndex, stageAliases, rep, ret, err, pc>>

\* the end of readInstructions: the scanner is exhausted
ReadReturn ==
    /\ pc = "read"
    /\ line > Len(file)
    /\ IF Len(current) # 0
       THEN Fail(Sprintf("unterminated line continuation at end of file", <<>>))
       ELSE pc' = "parse" /\ UNCHANGED <<ret, err>>
    /\ UNCHANGED <<file, line, current, currentLine, rawInstructions, instructions,
                   pos, stageIndex, stageAliases, rep>>

\* mutant: the empty-input check is missing
ParseInstructionsNoEmptyCheck ==
    /\ pc = "parse"
    /\ instructions' = [i \in 1..Len(rawInstructions) |->
                            parseInstruction(rawInstructions[i])]
    /\ pc' = "build"
    /\ UNCHANGED <<file, line, current, currentLine, rawInstructions,
                   pos, stageIndex, stageAliases, rep, ret, err>>

\* the empty-input check and the parse loop of analyzeDockerfile
ParseInstructions ==
    /\ pc = "parse"
    /\ IF Len(rawInstructions) = 0
       THEN /\ Fail(Sprintf("no Dockerfile instructions found in %s", <<fullPath>>))
            /\ UNCHANGED instructions
       ELSE /\ instructions' = [i \in 1..Len(rawInstructions) |->
                                    parseInstruction(rawInstructions[i])]
            /\ pc' = "build"
            /\ UNCHANGED <<ret, err>>
    /\ UNCHANGED <<file, line, current, currentLine, rawInstructions,
                   pos, stageIndex, stageAliases, rep>>

\* mutant: the alias note is left out
fromInstructionNoAliasNote(inst) ==
    LET index == stageIndex + 1
        ensured == ensureStage(rep, index)
        pf == parseFrom(inst.Args)
        stage == ensured.Stages[index + 1][1]
        aliased == IF pf.alias # <<>>
                   THEN MapSet(stageAliases, ToLower(pf.alias), index)
                   ELSE stageAliases
        first == buildLayer(inst, descriptorFor(inst.Keyword),
                     <<Sprintf("Stage resets here and pulls %q.", <<pf.base>>)>>)
        layer == [first EXCEPT !.Number = Len(stage.Layers) + 1]
        filled == [stage EXCEPT !.Stage.Base = pf.base, !.Stage.Name = pf.alias,
                                !.Layers = Append(@, layer)]
    IN  /\ stageIndex' = index
        /\ IF pf.base = <<>>
           THEN /\ Fail(Sprintf("line %d: FROM instruction missing base image",
                                <<Itoa(inst.Line)>>))
                /\ rep' = ensured
                /\ UNCHANGED <<stageAliases, pos>>
           ELSE /\ rep' = [ensured EXCEPT !.Stages[index + 1] = <<filled>>]
                /\ stageAliases' = MapSet(aliased, Itoa(index), index)
                /\ pos' = pos + 1
                /\ UNCHANGED <<ret, err, pc>>

\* the FROM branch of the builder loop
fromInstruction(inst) ==
    LET index == stageIndex + 1
        ensured == ensureStage(rep, index)
        pf == parseFrom(inst.Args)
        stage == ensured.Stages[index + 1][1]
        aliased == IF pf.alias # <<>>
                   THEN MapSet(stageAliases, ToLower(pf.alias), index)
                   ELSE stageAliases
        first == buildLayer(inst, descriptorFor(inst.Keyword),
                     <<Sprintf("Stage resets here and pulls %q.", <<pf.base>>)>>)
        noted == IF pf.alias # <<>>
                 THEN [first EXCEPT !.Notes = Append(@,
                          Sprintf("Alias %q lets you reference this stage via COPY --from=%s.",
                                  <<pf.alias, pf.alias>>))]
                 ELSE first
        layer == [noted EXCEPT !.Number = Len(stage.Layers) + 1]
        filled == [stage EXCEPT !.Stage.Base = pf.base, !.Stage.Name = pf.alias,
                                !.Layers = Append(@, layer)]
    IN  /\ stageIndex' = index
        /\ IF pf.base = <<>>
           THEN /\ Fail(Sprintf("line %d: FROM instruction missing base image",
                                <<Itoa(inst.Line)>>))
                /\ rep' = ensured
                /\ UNCHANGED <<stageAliases, pos>>
           ELSE /\ rep' = [ensured EXCEPT !.Stages[index + 1] = <<filled>>]
                /\ stageAliases' = MapSet(aliased, Itoa(index), index)
                /\ pos' = pos + 1
                /\ UNCHANGED <<ret, err, pc>>

\* mutant: every keyword is accepted before the first FROM
globalInstructionAnyKeyword(inst) ==
    LET built == buildLayer(inst, descriptorFor(inst.Keyword), <<>>)
        layer == [built EXCEPT
                     !.Notes = Append(@, Sprintf("This ARG applies globally and can be referenced in the first FROM.", <<>>)),
                     !.Number = Len(rep.Global) + 1]
    IN  /\ rep' = [rep EXCEPT !.Global = Append(@, layer)]
        /\ pos' = pos + 1
        /\ UNCHANGED <<stageIndex, stageAliases, ret, err, pc>>

\* mutant: the error names the whole instruction instead of its keyword
globalInstructionRawInError(inst) ==
    IF inst.Keyword = kwARG
    THEN globalInstructionAnyKeyword(inst)
    ELSE /\ Fail(Sprintf("line %d: Dockerfile must start with FROM (found %s)",
                         <<Itoa(inst.Line), inst.Raw>>))
         /\ UNCHANGED <<stageIndex, stageAliases, rep, pos>>

\* mutant: a global ARG moves the stage index
globalInstructionOpensStage(inst) ==
    IF inst.Keyword = kwARG
    THEN LET built == buildLayer(inst, descriptorFor(inst.Keyword), <<>>)
             layer == [built EXCEPT
                          !.Notes = Append(@, Sprintf("This ARG applies globally and can be referenced in the first FROM.", <<>>)),
                          !.Number = Len(rep.Global) + 1]
         IN  /\ rep' = ensureStage([rep EXCEPT !.Global = Append(@, layer)], 0)
             /\ pos' = pos + 1
             /\ stageIndex' = 0
             /\ UNCHANGED <<stageAliases, ret, err, pc>>
    ELSE /\ Fail(Sprintf("line %d: Dockerfile must start with FROM (found %s)",
                         <<Itoa(inst.Line), inst.Keyword>>))
         /\ UNCHANGED <<stageIndex, stageAliases, rep, pos>>

\* an instruction before the first FROM
globalInstruction(inst) ==
    IF inst.Keyword = kwARG
    THEN LET built == buildLayer(inst, descriptorFor(inst.Keyword), <<>>)
             layer == [built EXCEPT
                          !.Notes = Append(@, Sprintf("This ARG applies globally and can be referenced in the first FROM.", <<>>)),
                          !.Number = Len(rep.Global) + 1]
         IN  /\ rep' = [rep EXCEPT !.Global = Append(@, layer)]
             /\ pos' = pos + 1
             /\ UNCHANGED <<stageIndex, stageAliases, ret, err, pc>>
    ELSE /\ Fail(Sprintf("line %d: Dockerfile must start with FROM (found %s)",
                         <<Itoa(inst.Line), inst.Keyword>>))
         /\ UNCHANGED <<stageIndex, stageAliases, rep, pos>>

keywordNotes(inst, aliases) ==
    IF inst.Keyword = kwCOPY THEN copyNotes(inst.Args, aliases)
    ELSE IF inst.Keyword = kwADD
    THEN (IF Contains(inst.Args, <<"h","t","t","p",":","/","/">>) \/ Contains(inst.Args, <<"h","t","t","p","s",":","/","/">>)
          THEN <<Sprintf("Remote URLs are downloaded at build time; network changes can invalidate cache.", <<>>)>>
          ELSE <<>>)
         \o (IF Contains(inst.Args, <<".","t","a","r">>)
             THEN <<Sprintf("Tar archives are auto-extracted, which can surprise caching when archive contents change.", <<>>)>>
             ELSE <<>>)
    ELSE IF inst.Keyword = kwRUN
    THEN <<Sprintf("Cleanup temp files within the same RUN to prevent them from sticking in the layer.", <<>>)>>
    ELSE IF inst.Keyword = kwARG
    THEN <<Sprintf("Only available during build; use ENV if the value is needed at runtime.", <<>>)>>
    ELSE <<>>

\* mutant: a metadata instruction is counted as a filesystem layer
countLayerMetadataAsFs(stage, effect) ==
    IF effect = effectFilesystem THEN [stage EXCEPT !.FsLayers = @ + 1]
    ELSE IF effect = effectMetadata THEN [stage EXCEPT !.FsLayers = @ + 1]
    ELSE IF effect = effectBuildArg THEN [stage EXCEPT !.BuildArgs = @ + 1]
    ELSE stage

countLayer(stage, effect) ==
    IF effect = effectFilesystem THEN [stage EXCEPT !.FsLayers = @ + 1]
    ELSE IF effect = effectMetadata THEN [stage EXCEPT !.MetadataLayers = @ + 1]
    ELSE IF effect = effectBuildArg THEN [stage EXCEPT !.BuildArgs = @ + 1]
    ELSE stage

\* mutant: the layer is numbered from zero
stageInstructionZeroBased(inst) ==
    LET ensured == ensureStage(rep, stageIndex)
        stage == ensured.Stages[stageIndex + 1][1]
        built == buildLayer(inst, descriptorFor(inst.Keyword), <<>>)
        noted == [built EXCEPT !.Notes = @ \o keywordNotes(inst, stageAliases)]
        counted == countLayer(stage, noted.Effect)
        layer == [noted EXCEPT !.Number = Len(counted.Layers)]
        filled == [counted EXCEPT !.Layers = Append(@, layer)]
    IN  /\ rep' = [ensured EXCEPT !.Stages[stageIndex + 1] = <<filled>>]
        /\ pos' = pos + 1
        /\ UNCHANGED <<stageIndex, stageAliases, ret, err, pc>>

\* mutant: the layer always goes to the first stage
stageInstructionFirstStage(inst) ==
    LET ensured == ensureStage(rep, 0)
        stage == ensured.Stages[1][1]
        built == buildLayer(inst, descriptorFor(inst.Keyword), <<>>)
        noted == [built EXCEPT !.Notes = @ \o keywordNotes(inst, stageAliases)]
        counted == countLayer(stage, noted.Effect)
        layer == [noted EXCEPT !.Number = Len(counted.Layers) + 1]
        filled == [counted EXCEPT !.Layers = Append(@, layer)]
    IN  /\ rep' = [ensured EXCEPT !.Stages[1] = <<filled>>]
        /\ pos' = pos + 1
        /\ UNCHANGED <<stageIndex, stageAliases, ret, err, pc>>

\* an instruction inside a stage
stageInstruction(inst) ==
    LET ensured == ensureStage(rep, stageIndex)
        stage == ensured.Stages[stageIndex + 1][1]
        built == buildLayer(inst, descriptorFor(inst.Keyword), <<>>)
        noted == [built EXCEPT !.Notes = @ \o keywordNotes(inst, stageAliases)]
        counted == countLayer(stage, noted.Effect)
        layer == [noted EXCEPT !.Number = Len(counted.Layers) + 1]
        filled == [counted EXCEPT !.Layers = Append(@, layer)]
    IN  /\ rep' = [ensured EXCEPT !.Stages[stageIndex + 1] = <<filled>>]
        /\ pos' = pos + 1
        /\ UNCHANGED <<stageIndex, stageAliases, ret, err, pc>>

\* one iteration of the builder loop of analyzeDockerfile
BuildInstruction ==
    /\ pc = "build"
    /\ pos <= Len(instructions)
    /\ LET inst == instructions[pos]
       IN  IF inst.Keyword = <<>>
           THEN pos' = pos + 1 /\ UNCHANGED <<stageIndex, stageAliases, rep, ret, err, pc>>
           ELSE IF inst.Keyword = kwFROM THEN fromInstruction(inst)
           ELSE IF stageIndex = -1 THEN globalInstruction(inst)
           ELSE stageInstruction(inst)
    /\ UNCHANGED <<file, line, current, currentLine, rawInstructions, instructions>>

\* return rep, nil
Return ==
    /\ pc = "build"
    /\ pos > Len(instructions)
    /\ ret' = <<rep>>
    /\ pc' = "done"
    /\ UNCHANGED <<file, line, current, currentLine, rawInstructions, instructions,
                   pos, stageIndex, stageAliases, rep, err>>

Next == ScanLine \/ ReadReturn \/ ParseInstructions \/ BuildInstruction \/ Return

Spec == Init /\ [][Next]_vars

SpecLex == InitLex /\ [][Next]_vars

SpecRef == InitRef /\ [][Next]_vars

\* the call runs on one goroutine that is never suspended: a loop iteration or
\* return that can be taken is taken
SpecLive == InitLive /\ [][Next]_vars /\ WF_vars(Next)

(***************************************************************************)
(* Properties.                                                             *)
(***************************************************************************)
Succeeded == pc = "done" /\ ret # <<>>

FromPositions == {i \in 1..Len(instructions) : instructions[i].Keyword = kwFROM}

\* C1: on success the report has one stage per FROM instruction of the input,
\* none of them nil, and the stage at position i has Stage.Index = i (0-based).
C1_StagePerFrom ==
    Succeeded =>
        LET stages == ret[1].Stages
        IN  /\ Len(stages) = Cardinality(FromPositions)
            /\ \A i \in 1..Len(stages) :
                   stages[i] # <<>> /\ stages[i][1].Stage.Index = i - 1

C1_Witness ==
    /\ Succeeded
    /\ Len(ret[1].Stages) = 2
    /\ Len(instructions) = 3
    /\ ret[1].Stages[2][1].Stage.Index = 1

\* the instructions in front of the first FROM (all of them when there is none)
PreambleLen ==
    IF FromPositions = {} THEN Len(instructions) ELSE SetMin(FromPositions) - 1

GlobalArgNote ==
    Sprintf("This ARG applies globally and can be referenced in the first FROM.", <<>>)

\* C2: on success report.Global holds exactly the ARG instructions in front of
\* the first FROM, in their order, each with effect "build arg" and the note
\* that the ARG applies globally; nothing else is ever in report.Global.
C2_GlobalIsArgPreamble ==
    Succeeded =>
        LET global == ret[1].Global
        IN  /\ Len(global) = PreambleLen
            /\ \A k \in 1..Len(global) :
                   /\ global[k].Instruction = instructions[k]
                   /\ global[k].Instruction.Keyword = kwARG
                   /\ global[k].Effect = effectBuildArg
                   /\ global[k].Notes = <<GlobalArgNote>>

C2_Witness ==
    /\ Succeeded
    /\ Len(ret[1].Global) = 1
    /\ Len(ret[1].Stages) = 1
    /\ Len(ret[1].Stages[1][1].Layers) = 2
    /\ ret[1].Stages[1][1].Layers[2].Instruction.Keyword = kwARG

\* the first instruction that is not an ARG, if it is not a FROM either
NonArgPositions == {i \in 1..Len(instructions) : instructions[i].Keyword # kwARG}

BeforeFromError(inst) ==
    Sprintf("line %d: Dockerfile must start with FROM (found %s)",
            <<Itoa(inst.Line), inst.Keyword>>)

\* C3: when the first instruction that is neither FROM nor ARG comes before any
\* FROM, at logical line L with keyword K, the analysis ends with
\* "line L: Dockerfile must start with FROM (found K)" and no report; a file
\* whose line 1 is a RUN instruction ends with that error for line 1.
C3_MustStartWithFrom ==
    (pc = "done" /\ instructions # <<>>) =>
        /\ (NonArgPositions # {}
            /\ instructions[SetMin(NonArgPositions)].Keyword # kwFROM)
           => /\ err = <<BeforeFromError(instructions[SetMin(NonArgPositions)])>>
              /\ ret = <<>>
        /\ (Len(file) >= 1 /\ HasPrefix(file[1], kwRUN))
           => err = <<Sprintf("line %d: Dockerfile must start with FROM (found %s)",
                              <<Itoa(1), kwRUN>>)>>

C3_Witness ==
    /\ pc = "done"
    /\ Len(instructions) = 3
    /\ instructions[1].Keyword = kwARG
    /\ instructions[2].Keyword = kwCOPY
    /\ err = <<BeforeFromError(instructions[2])>>
    /\ ret = <<>>

EffectCount(stage, effect) ==
    Cardinality({k \in 1..Len(stage.Layers) : stage.Layers[k].Effect = effect})

StageCountsAgree(stage) ==
    /\ stage.FsLayers = EffectCount(stage, effectFilesystem)
    /\ stage.MetadataLayers = EffectCount(stage, effectMetadata)
    /\ stage.BuildArgs = EffectCount(stage, effectBuildArg)
    /\ Len(stage.Layers) = stage.FsLayers + stage.MetadataLayers + stage.BuildArgs + 1

\* C4: in every stage, after each processed instruction and in the returned
\* report, FsLayers, MetadataLayers and BuildArgs are the numbers of layers with
\* effect filesystem, metadata and build arg, and the stage has one layer more
\* than their sum.
C4_CountsMatchLayers ==
    /\ err = <<>> =>
           \A i \in 1..Len(rep.Stages) :
               rep.Stages[i] # <<>> /\ StageCountsAgree(rep.Stages[i][1])
    /\ ret # <<>> =>
           \A i \in 1..Len(ret[1].Stages) :
               ret[1].Stages[i] # <<>> /\ StageCountsAgree(ret[1].Stages[i][1])

C4_Witness ==
    /\ pc = "build"
    /\ Len(rep.Stages) = 1
    /\ rep.Stages[1][1].FsLayers = 1
    /\ rep.Stages[1][1].MetadataLayers = 1
    /\ Len(rep.Stages[1][1].Layers) = 3

\* the <ref> of the first `--from=<ref>` token of a COPY, <<>> when there is none
FromRef(args) ==
    LET tokens == Fields(args)
        flagged == {i \in 1..Len(tokens) : HasPrefix(tokens[i], <<"-","-","f","r","o","m","=">>)}
    IN  IF flagged = {} THEN <<>>
        ELSE SubSeq(tokens[SetMin(flagged)], Len(<<"-","-","f","r","o","m","=">>) + 1,
                    Len(tokens[SetMin(flagged)]))

\* the stages, up to stage s, that <ref> names by alias (any case) or by index
StagesNamedBy(ref, s, stages) ==
    {j \in 0..s :
        \/ (stages[j + 1][1].Stage.Name # <<>>
            /\ ToLower(stages[j + 1][1].Stage.Name) = ToLower(ref))
        \/ Itoa(j) = ref}

CopiesFromStage ==
    "Copies from stage %d (%s). Cache depends on that stage's output instead of local files."

\* C5: a COPY whose --from=<ref> names, in any case, the alias of a stage opened
\* before it, or the index of such a stage, carries a note giving that stage's
\* index together with that stage's alias.
C5_CopyNoteNamesStage ==
    \A s \in 0..(Len(rep.Stages) - 1) :
        \A k \in 1..Len(rep.Stages[s + 1][1].Layers) :
            LET layer == rep.Stages[s + 1][1].Layers[k]
                ref == FromRef(layer.Instruction.Args)
                named == StagesNamedBy(ref, s, rep.Stages)
            IN  (layer.Instruction.Keyword = kwCOPY /\ ref # <<>> /\ named # {}) =>
                    /\ Len(layer.Notes) = 1
                    /\ layer.Notes[1].fmt = CopiesFromStage
                    /\ \E j \in named :
                           /\ layer.Notes[1].args[1] = Itoa(j)
                           /\ \/ rep.Stages[j + 1][1].Stage.Name = <<>>
                              \/ ToLower(layer.Notes[1].args[2])
                                     = ToLower(rep.Stages[j + 1][1].Stage.Name)

\* C6: an alias-table key, once it maps to a stage index, maps to that index ever
\* after; no later FROM overwrites it.
C6_AliasWriteOnce ==
    [][\A key \in DOMAIN stageAliases :
           key \in DOMAIN stageAliases' /\ stageAliases'[key] = stageAliases[key]]_vars

\* C7: for every stage i created so far the alias table maps the decimal string
\* of i to i, and a COPY --from=<i> in stage i or later is noted as reading
\* stage i, whatever aliases the stages declare.
C7_IndexKeyMapsToItself ==
    err = <<>> =>
        /\ \A i \in 0..(Len(rep.Stages) - 1) :
               Itoa(i) \in DOMAIN stageAliases /\ stageAliases[Itoa(i)] = i
        /\ \A s \in 0..(Len(rep.Stages) - 1) :
               \A k \in 1..Len(rep.Stages[s + 1][1].Layers) :
                   LET layer == rep.Stages[s + 1][1].Layers[k]
                       ref == FromRef(layer.Instruction.Args)
                   IN  (layer.Instruction.Keyword = kwCOPY
                        /\ \E i \in 0..s : ref = Itoa(i)) =>
                           /\ Len(layer.Notes) = 1
                           /\ layer.Notes[1].fmt = CopiesFromStage
                           /\ layer.Notes[1].args[1] = ref

\* a physical line that is blank or a whole-line comment
BlankOrComment(l) == TrimSpace(l) = <<>> \/ TrimSpace(l)[1] = "#"

ContentLines == {i \in 1..Len(file) : ~BlankOrComment(file[i])}

\* the text of physical line l in front of its inline comment
BeforeInlineComment(l) == removeInlineComment(TrimSpace(l))

\* the input ends while a line continuation is open
EndsInContinuation ==
    /\ ContentLines # {}
    /\ LET last == BeforeInlineComment(file[SetMax(ContentLines)])
       IN  last # <<>> /\ last[Len(last)] = "\\"

Unterminated == Sprintf("unterminated line continuation at end of file", <<>>)

\* C8: whenever the input ends while a line continuation is open (the last line
\* that is neither blank nor a comment ends with a backslash once its inline
\* comment is stripped, a line holding only a backslash included) the analysis
\* ends with "unterminated line continuation at end of file" and no report.
C8_DanglingContinuationFails ==
    (pc = "done" /\ EndsInContinuation) => (err = <<Unterminated>> /\ ret = <<>>)

NoInstructionsFound ==
    Sprintf("no Dockerfile instructions found in %s", <<fullPath>>)

\* C9: an input of only blank and comment lines (or no line) ends with the
\* "no Dockerfile instructions found" error and no report, and a returned
\* report always has at least one instruction behind it.
C9_EmptyInputFails ==
    /\ (pc = "done" /\ ContentLines = {}) =>
           (err = <<NoInstructionsFound>> /\ ret = <<>>)
    /\ (pc = "done" /\ rawInstructions = <<>>) =>
           (ret = <<>> /\ err \in {<<NoInstructionsFound>>, <<Unterminated>>})
    /\ (err = <<NoInstructionsFound>>) => (rawInstructions = <<>> /\ ret = <<>>)
    /\ Succeeded => (Len(rawInstructions) >= 1 /\ Len(instructions) >= 1)

C9_Witness ==
    /\ pc = "done"
    /\ Len(file) = 2
    /\ TrimSpace(file[1]) = <<>>
    /\ HasPrefix(file[2], <<"#">>)
    /\ err = <<NoInstructionsFound>>
    /\ ret = <<>>

\* every token of the FROM arguments is a flag (there may be no token at all)
OnlyFlags(args) == \A i \in 1..Len(Fields(args)) : HasPrefix(Fields(args)[i], <<"-","-">>)

MissingBaseImage(inst) ==
    Sprintf("line %d: FROM instruction missing base image", <<Itoa(inst.Line)>>)

\* C10: a FROM at logical line L whose arguments are empty or only flags ends
\* the analysis with "line L: FROM instruction missing base image" wherever it
\* stands in the file; every other FROM is accepted and opens a stage.
C10_FromNeedsBaseImage ==
    [][(pc = "build" /\ pos <= Len(instructions)
        /\ instructions[pos].Keyword = kwFROM) =>
           IF OnlyFlags(instructions[pos].Args)
           THEN /\ pc' = "done"
                /\ err' = <<MissingBaseImage(instructions[pos])>>
                /\ ret' = <<>>
           ELSE /\ pc' = "build"
                /\ err' = <<>>
                /\ pos' = pos + 1
                /\ Len(rep'.Stages) = Len(rep.Stages) + 1
                /\ rep'.Stages[Len(rep'.Stages)][1].Stage.Base # <<>>]_vars

C10_Witness ==
    /\ pc = "done"
    /\ Len(instructions) = 3
    /\ instructions[2].Keyword = kwFROM
    /\ ~OnlyFlags(instructions[2].Args)
    /\ instructions[3].Keyword = kwFROM
    /\ instructions[3].Args # <<>>
    /\ OnlyFlags(instructions[3].Args)
    /\ err = <<MissingBaseImage(instructions[3])>>
    /\ instructions[3].Line = 3

FilesystemKeywords == {kwRUN, kwCOPY, kwADD}

MetadataKeywords ==
    { <<"C","M","D">>, <<"E","N","T","R","Y","P","O","I","N","T">>, <<"E","N","V">>, <<"W","O","R","K","D","I","R">>, <<"U","S","E","R">>, <<"L","A","B","E","L">>,
      <<"E","X","P","O","S","E">>, <<"V","O","L","U","M","E">>, <<"H","E","A","L","T","H","C","H","E","C","K">>, <<"S","T","O","P","S","I","G","N","A","L">>, <<"S","H","E","L","L">>,
      <<"O","N","B","U","I","L","D">>, <<"M","A","I","N","T","A","I","N","E","R">> }

UnknownKeywords == { <<"C","H","E","C","K","P","O","I","N","T">>, <<"F","R","O","M","M">>, <<"f","r","o","m">>, <<"R","u","n">>, <<"X">> }

ExpectedEffect(keyword) ==
    IF keyword = kwFROM THEN effectStageStart
    ELSE IF keyword \in FilesystemKeywords THEN effectFilesystem
    ELSE IF keyword = kwARG THEN effectBuildArg
    ELSE effectMetadata

GenericExplanation ==
    "Recorded as metadata. It influences how containers start but does not add filesystem content."

GenericCacheHint ==
    "Cache key ties to the literal instruction, so changing text invalidates the layer."

IsUnknownKeyword(keyword) ==
    keyword \notin {kwFROM, kwARG} \cup FilesystemKeywords \cup MetadataKeywords

AllLayers(r) ==
    {r.Global[k] : k \in 1..Len(r.Global)}
        \cup UNION {{r.Stages[i][1].Layers[k] : k \in 1..Len(r.Stages[i][1].Layers)} :
                        i \in {j \in 1..Len(r.Stages) : r.Stages[j] # <<>>}}

\* C11: descriptorFor gives stage start for FROM only, filesystem layer for RUN,
\* COPY and ADD, build arg for ARG only, metadata for the thirteen listed
\* metadata keywords, and metadata with the generic explanation and cache hint
\* for any other keyword; every layer of a report carries the descriptor of its
\* keyword, and an unknown keyword inside a stage is a layer counted in
\* MetadataLayers, not an error.
C11_DescriptorByKeyword ==
    /\ \A keyword \in {kwFROM, kwARG} \cup FilesystemKeywords \cup MetadataKeywords
                          \cup UnknownKeywords :
           /\ descriptorFor(keyword).Effect = ExpectedEffect(keyword)
           /\ IsUnknownKeyword(keyword) =>
                  /\ descriptorFor(keyword).Explanation = GenericExplanation
                  /\ descriptorFor(keyword).CacheHint = GenericCacheHint
           /\ ~IsUnknownKeyword(keyword) =>
                  descriptorFor(keyword).Explanation # GenericExplanation
    /\ \A layer \in AllLayers(rep) :
           /\ layer.Effect = ExpectedEffect(layer.Instruction.Keyword)
           /\ IsUnknownKeyword(layer.Instruction.Keyword) =>
                  /\ layer.Explanation = GenericExplanation
                  /\ layer.CacheHint = GenericCacheHint
    /\ (pc = "done" /\ instructions # <<>> /\ err # <<>>) =>
           ~IsUnknownKeyword(instructions[pos].Keyword) \/ stageIndex = -1

C11_Witness ==
    /\ Succeeded
    /\ Len(ret[1].Stages) = 1
    /\ Len(ret[1].Stages[1][1].Layers) = 3
    /\ ret[1].Stages[1][1].Layers[2].Instruction.Keyword = <<"C","H","E","C","K","P","O","I","N","T">>
    /\ ret[1].Stages[1][1].Layers[2].Effect = effectMetadata
    /\ ret[1].Stages[1][1].Layers[2].Explanation = GenericExplanation
    /\ ret[1].Stages[1][1].MetadataLayers = 2

\* findLayer of the tests: the first layer of the stage with the keyword
FindLayer(stage, keyword) ==
    stage.Layers[SetMin({k \in 1..Len(stage.Layers) :
                            stage.Layers[k].Instruction.Keyword = keyword})]

\* C12: the six-line single-stage file gives one global entry with effect build
\* arg and exactly one stage with Base "alpine:${GLOBAL_VERSION}", FsLayers 2,
\* MetadataLayers 2, BuildArgs 0 and 5 layers, the first being the FROM layer
\* with effect stage start, and the RUN layer having effect filesystem layer.
C12_ScenarioA ==
    (pc = "done" /\ file = ScenarioA) =>
        /\ Succeeded /\ err = <<>>
        /\ Len(ret[1].Global) = 1
        /\ ret[1].Global[1].Effect = effectBuildArg
        /\ Len(ret[1].Stages) = 1
        /\ LET stage == ret[1].Stages[1][1]
           IN  /\ stage.Stage.Base = <<"a","l","p","i","n","e",":","$","{","G","L","O","B","A","L","_","V","E","R","S","I","O","N","}">>
               /\ stage.FsLayers = 2
               /\ stage.MetadataLayers = 2
               /\ stage.BuildArgs = 0
               /\ Len(stage.Layers) = 5
               /\ stage.Layers[1].Instruction.Keyword = kwFROM
               /\ stage.Layers[1].Effect = effectStageStart
               /\ FindLayer(stage, kwRUN).Effect = effectFilesystem

C12_Witness == pc = "done" /\ file = ScenarioA /\ Succeeded /\ pos = 7

\* C13: the seven-line multi-stage file gives 3 stages, stage 0 named "base",
\* stage 1 with BuildArgs 1 and a COPY note "stage 0 (base)", stage 2 with Base
\* "scratch" and a COPY note "stage 1 (builder)", and stage 2's ENTRYPOINT
\* classified as metadata.
C13_ScenarioB ==
    (pc = "done" /\ file = ScenarioB) =>
        /\ Succeeded /\ err = <<>>
        /\ Len(ret[1].Stages) = 3
        /\ ret[1].Stages[1][1].Stage.Name = <<"b","a","s","e">>
        /\ ret[1].Stages[2][1].BuildArgs = 1
        /\ FindLayer(ret[1].Stages[2][1], kwCOPY).Notes
               = <<Sprintf(CopiesFromStage, << <<"0">>, <<"b","a","s","e">> >>)>>
        /\ ret[1].Stages[3][1].Stage.Base = <<"s","c","r","a","t","c","h">>
        /\ FindLayer(ret[1].Stages[3][1], kwCOPY).Notes
               = <<Sprintf(CopiesFromStage, << <<"1">>, <<"b","u","i","l","d","e","r">> >>)>>
        /\ FindLayer(ret[1].Stages[3][1], <<"E","N","T","R","Y","P","O","I","N","T">>).Effect = effectMetadata

C13_Witness == pc = "done" /\ file = ScenarioB /\ Succeeded /\ pos = 8

\* the instructions the builder cannot accept: a FROM without a base image, or
\* an instruction other than FROM and ARG with no FROM in front of it
Offending ==
    {i \in 1..Len(instructions) :
        \/ instructions[i].Keyword = kwFROM /\ OnlyFlags(instructions[i].Args)
        \/ /\ instructions[i].Keyword \notin {kwFROM, kwARG}
           /\ \A j \in 1..(i - 1) : instructions[j].Keyword # kwFROM}

BuilderError(inst) ==
    IF inst.Keyword = kwFROM THEN MissingBaseImage(inst) ELSE BeforeFromError(inst)

RECURSIVE SumLayers(_)
SumLayers(stages) ==
    IF stages = <<>> THEN 0
    ELSE (IF Head(stages) = <<>> THEN 0 ELSE Len(Head(stages)[1].Layers))
             + SumLayers(Tail(stages))

LayerCount(r) == Len(r.Global) + SumLayers(r.Stages)

\* C15: an error is never accompanied by a report; when the builder fails, the
\* error is that of the earliest offending instruction in stream order and no
\* instruction after it is processed; with no offending instruction the
\* builder returns a report and no error.
C15_FailFast ==
    /\ ret # <<>> => err = <<>>
    /\ (pc = "done" /\ err # <<>>) => ret = <<>>
    /\ (pc = "done" /\ instructions # <<>>) =>
           IF Offending = {}
           THEN err = <<>> /\ ret # <<>>
           ELSE /\ err = <<BuilderError(instructions[SetMin(Offending)])>>
                /\ ret = <<>>
                /\ pos = SetMin(Offending)
                /\ LayerCount(rep) = SetMin(Offending) - 1

C15_Witness ==
    /\ pc = "done"
    /\ Len(instructions) = 3
    /\ Offending = {2, 3}
    /\ err = <<MissingBaseImage(instructions[2])>>
    /\ ret = <<>>

LayerInstructions(layers) == [k \in 1..Len(layers) |-> layers[k].Instruction]

RECURSIVE StageInstructions(_)
StageInstructions(stages) ==
    IF stages = <<>> THEN <<>>
    ELSE LayerInstructions(Head(stages)[1].Layers) \o StageInstructions(Tail(stages))

\* the instructions of a report, list after list
ReportInstructions(r) == LayerInstructions(r.Global) \o StageInstructions(r.Stages)

\* C16: on success every logical instruction is in exactly one list, Global or
\* the Layers of the stage opened by the most recent FROM at or before it, in
\* source order; the lists together hold as many layers as there are
\* instructions.
C16_EveryInstructionOnce ==
    Succeeded =>
        /\ LayerCount(ret[1]) = Len(instructions)
        /\ ReportInstructions(ret[1]) = instructions
        /\ \A p \in 1..Len(instructions) :
               LET opened == Cardinality({q \in FromPositions : q <= p})
               IN  IF opened = 0
                   THEN \E k \in 1..Len(ret[1].Global) :
                            ret[1].Global[k].Instruction = instructions[p]
                   ELSE \E k \in 1..Len(ret[1].Stages[opened][1].Layers) :
                            ret[1].Stages[opened][1].Layers[k].Instruction = instructions[p]

C16_Witness ==
    /\ Succeeded
    /\ file = ScenarioB
    /\ Len(ret[1].Stages[2][1].Layers) = 3
    /\ Len(ret[1].Stages[3][1].Layers) = 3

NumberedFromOne(layers) == \A k \in 1..Len(layers) : layers[k].Number = k

DenseNumbers(r) ==
    /\ NumberedFromOne(r.Global)
    /\ \A i \in 1..Len(r.Stages) :
           r.Stages[i] # <<>> => NumberedFromOne(r.Stages[i][1].Layers)

\* C17: while building and in the returned report, the layer at 0-based
\* position k of Global and of every stage's Layers has Number = k + 1.
C17_LayerNumbersDense ==
    /\ DenseNumbers(rep)
    /\ ret # <<>> => DenseNumbers(ret[1])

C17_Witness ==
    /\ Succeeded
    /\ Len(ret[1].Global) = 1
    /\ ret[1].Global[1].Number = 1
    /\ Len(ret[1].Stages) = 1
    /\ Len(ret[1].Stages[1][1].Layers) = 2
    /\ ret[1].Stages[1][1].Layers[2].Number = 2
    /\ ret[1].Stages[1][1].Layers[2].Instruction.Keyword = kwRUN

KthSmallest(S, k) == CHOOSE x \in S : Cardinality({y \in S : y <= x}) = k

\* physical line i leaves a continuation open
Continues(i) ==
    /\ i \in ContentLines
    /\ BeforeInlineComment(file[i]) # <<>>
    /\ BeforeInlineComment(file[i])[Len(BeforeInlineComment(file[i]))] = "\\"

\* physical line i is the first line of a logical instruction
OpensInstruction(i) ==
    /\ i \in ContentLines
    /\ LET earlier == {j \in ContentLines : j < i}
       IN  earlier = {} \/ ~Continues(SetMax(earlier))

OpeningLines == {i \in 1..Len(file) : OpensInstruction(i)}

\* C18: the line number of every emitted logical instruction is the 1-based
\* number of its first physical line, the line that opened the continuation,
\* also when that line holds nothing but a backslash.
C18_LineIsFirstPhysicalLine ==
    \A k \in 1..Len(rawInstructions) :
        /\ Cardinality(OpeningLines) >= k
        /\ rawInstructions[k].line = KthSmallest(OpeningLines, k)

\* a # that starts a comment: the first character, or right after whitespace
StartsComment(l, i) == l[i] = "#" /\ (i = 1 \/ l[i - 1] \in {" ", "\t"})

\* the left-to-right scan for the first # that starts a comment
RECURSIVE CutAtComment(_, _)
CutAtComment(l, i) ==
    IF i > Len(l) THEN l
    ELSE IF StartsComment(l, i) THEN TrimSpace(SubSeq(l, 1, i - 1))
    ELSE CutAtComment(l, i + 1)

CommentCutIsRight(l) ==
    /\ removeInlineComment(l) = CutAtComment(l, 1)
    /\ (\A i \in 1..Len(l) : ~StartsComment(l, i)) => removeInlineComment(l) = l
    /\ (\E i \in 1..Len(l) : StartsComment(l, i)) =>
           /\ Len(removeInlineComment(l)) < Len(l)
           /\ \A i \in 1..Len(removeInlineComment(l)) :
                  ~StartsComment(removeInlineComment(l), i)

\* C19: removeInlineComment cuts a line at the first # that is its first
\* character or follows whitespace and trims the rest; a # after any other
\* character cuts nothing, so a line without a comment-starting # is returned
\* unchanged, and an emitted one-line instruction has exactly the cut text.
C19_InlineCommentCut ==
    /\ \A i \in 1..Len(file) :
           CommentCutIsRight(file[i]) /\ CommentCutIsRight(TrimSpace(file[i]))
    /\ \A k \in 1..Len(rawInstructions) :
           (~Continues(rawInstructions[k].line)
            /\ OpensInstruction(rawInstructions[k].line)) =>
               rawInstructions[k].text
                   = CutAtComment(TrimSpace(file[rawInstructions[k].line]), 1)

C19_Witness ==
    /\ pc = "parse"
    /\ file = << <<"A","D","D"," ","u","#","f"," ","d">>, <<"A","D","D"," ","u","#","f"," ","#","n">> >>
    /\ rawInstructions = << rawInstruction(1, <<"A","D","D"," ","u","#","f"," ","d">>),
                            rawInstruction(2, <<"A","D","D"," ","u","#","f">>) >>

\* C20: on each physical line the inline comment is stripped before the
\* continuation backslash is looked for: the line continues exactly when the
\* text in front of its comment ends with a backslash, so `RUN a # n \` closes
\* the logical instruction and `RUN a \ # n` continues onto the next line.
C20_CommentBeforeContinuation ==
    [][(pc = "read" /\ line <= Len(file) /\ ~BlankOrComment(file[line])) =>
           LET cut == CutAtComment(TrimSpace(file[line]), 1)
           IN  /\ IF cut # <<>> /\ cut[Len(cut)] = "\\"
                  THEN rawInstructions' = rawInstructions
                  ELSE /\ Len(rawInstructions') = Len(rawInstructions) + 1
                       /\ current' = <<>>
               /\ file[line] = <<"R","U","N"," ","a"," ","#"," ","n"," ","\\">> =>
                      /\ Len(rawInstructions') = Len(rawInstructions) + 1
                      /\ HasSuffix(rawInstructions'[Len(rawInstructions')].text, <<"R","U","N"," ","a">>)
               /\ file[line] = <<"R","U","N"," ","a"," ","\\"," ","#"," ","n">> =>
                      /\ rawInstructions' = rawInstructions
                      /\ HasSuffix(current', <<"R","U","N"," ","a">>)]_vars

C20_Witness ==
    /\ pc = "parse"
    /\ file = << <<"R","U","N"," ","a"," ","\\"," ","#"," ","n">>, <<"R","U","N"," ","a"," ","#"," ","n"," ","\\">> >>
    /\ rawInstructions = << rawInstruction(1, <<"R","U","N"," ","a"," ","R","U","N"," ","a">>) >>
    /\ current = <<>>

\* the content of physical line i: trimmed, without its inline comment, its
\* trailing backslash and the whitespace in front of the backslash
LineContent(i) ==
    LET cut == CutAtComment(TrimSpace(file[i]), 1)
    IN  IF cut # <<>> /\ cut[Len(cut)] = "\\"
        THEN TrimSpace(SubSeq(cut, 1, Len(cut) - 1))
        ELSE cut

RECURSIVE JoinWithSpaces(_)
JoinWithSpaces(parts) ==
    IF Len(parts) = 0 THEN <<>>
    ELSE IF Len(parts) = 1 THEN parts[1]
    ELSE parts[1] \o <<" ">> \o JoinWithSpaces(Tail(parts))

\* the contents of the contributing lines among physical lines from..to
RECURSIVE Contents(_, _)
Contents(from, to) ==
    IF from > to THEN <<>>
    ELSE IF BlankOrComment(file[from]) THEN Contents(from + 1, to)
    ELSE <<LineContent(from)>> \o Contents(from + 1, to)

RECURSIVE WordLen(_, _)
WordLen(s, i) ==
    IF i > Len(s) \/ s[i] \in {" ", "\t", "\r", "\f"} THEN i - 1 ELSE WordLen(s, i + 1)

\* what the parser owes for logical line raw
ParsedRight(raw, inst) ==
    LET t == TrimSpace(raw.text)
        n == WordLen(t, 1)
    IN  /\ t # <<>>
        /\ inst.Line = raw.line
        /\ inst.Raw = t
        /\ inst.Keyword # <<>>
        /\ Len(inst.Keyword) = n
        /\ \A i \in 1..n : inst.Keyword[i] = upperChar(t[i])
        /\ inst.Args = TrimSpace(SubSeq(t, n + 1, Len(t)))
        /\ (n = Len(t)) => inst.Args = <<>>

OpensStage(inst) == EqualFold(SubSeq(inst.Raw, 1, WordLen(inst.Raw, 1)), <<"F","R","O","M">>)

\* C22: parseInstruction never fails; every logical line is non-empty and is
\* parsed into Keyword = the uppercased text in front of its first whitespace,
\* Args = the trimmed remainder (empty without whitespace) and Raw = the trimmed
\* text in its original case. Hence keywords match in any case: `from a as x`
\* opens a stage with base a and alias x, and no instruction that reaches the
\* builder has an empty keyword.
C22_ParseInstruction ==
    /\ pc \in {"build", "done"} /\ instructions # <<>> =>
           /\ Len(instructions) = Len(rawInstructions)
           /\ \A k \in 1..Len(instructions) :
                  ParsedRight(rawInstructions[k], instructions[k])
    /\ pc = "build" =>
           /\ Len(rep.Stages)
                  = Cardinality({k \in 1..(pos - 1) : OpensStage(instructions[k])})
           /\ \A s \in 1..Len(rep.Stages) :
                  LET first == rep.Stages[s][1].Layers[1].Instruction
                  IN  /\ first.Keyword = kwFROM
                      /\ OpensStage(first)
                      /\ first.Raw = <<"f","r","o","m"," ","a"," ","a","s"," ","x">> =>
                             /\ rep.Stages[s][1].Stage.Base = <<"a">>
                             /\ rep.Stages[s][1].Stage.Name = <<"x">>
                             /\ stageAliases[<<"x">>] >= s - 1

C22_Witness ==
    /\ pc = "done"
    /\ file = << <<"f","r","o","m"," ","a"," ","a","s"," ","x">>, <<"c","o","p","y","\t","-","-","f","r","o","m","=","X"," "," ","s">>, <<"R","U","N">> >>
    /\ ret # <<>>
    /\ Len(ret[1].Stages) = 1
    /\ ret[1].Stages[1][1].Stage.Name = <<"x">>
    /\ ret[1].Stages[1][1].Layers[2].Instruction
           = parsedInstruction(2, <<"C","O","P","Y">>, <<"-","-","f","r","o","m","=","X"," "," ","s">>, <<"c","o","p","y","\t","-","-","f","r","o","m","=","X"," "," ","s">>)
    /\ ret[1].Stages[1][1].Layers[3].Instruction = parsedInstruction(3, <<"R","U","N">>, <<>>, <<"R","U","N">>)

IsFlag(token) == Len(token) >= 2 /\ token[1] = "-" /\ token[2] = "-"

IsAs(token) == Len(token) = 2 /\ token[1] \in {"a", "A"} /\ token[2] \in {"s", "S"}

\* the position of the first token at or after i that is not a flag, 0 if none
RECURSIVE FirstNonFlag(_, _)
FirstNonFlag(tokens, i) ==
    IF i > Len(tokens) THEN 0
    ELSE IF IsFlag(tokens[i]) THEN FirstNonFlag(tokens, i + 1)
    ELSE i

\* the stages opened by an accepted FROM, with that FROM's argument tokens
AcceptedStages == {s \in 1..Len(rep.Stages) : rep.Stages[s][1].Layers # <<>>}

FromTokens(s) == Fields(rep.Stages[s][1].Layers[1].Instruction.Args)

\* C23 as stated: Base is the first token that is not a flag and Name is the
\* token that follows an AS token, empty only when no AS is followed by a token.
C23_NameFollowsAnyAs ==
    \A s \in AcceptedStages :
        LET tokens == FromTokens(s)
            followers == {tokens[i + 1] : i \in {j \in 1..(Len(tokens) - 1) : IsAs(tokens[j])}}
        IN  /\ rep.Stages[s][1].Stage.Base = tokens[FirstNonFlag(tokens, 1)]
            /\ IF followers = {} THEN rep.Stages[s][1].Stage.Name = <<>>
               ELSE rep.Stages[s][1].Stage.Name \in followers

\* C23 amended: Base is the first token that is not a flag; Name is the token
\* two places after the base when the token right after the base is AS in any
\* case, kept as written, and is empty otherwise, also when an AS followed by a
\* token stands further to the right (`FROM a b AS c` opens an unnamed stage).
C23_NameFollowsBaseThenAs ==
    \A s \in AcceptedStages :
        LET tokens == FromTokens(s)
            b == FirstNonFlag(tokens, 1)
        IN  /\ b > 0
            /\ rep.Stages[s][1].Stage.Base = tokens[b]
            /\ rep.Stages[s][1].Stage.Name =
                   IF b + 2 <= Len(tokens) /\ IsAs(tokens[b + 1]) THEN tokens[b + 2] ELSE <<>>

C23_Witness ==
    /\ pc = "done"
    /\ file = << <<"F","R","O","M"," ","a"," ","b"," ","A","S"," ","c">>, <<"F","R","O","M"," ","-","-","p"," ","b"," ","A","S"," ","Y">>, <<"F","R","O","M"," ","b"," ","A","S">> >>
    /\ ret # <<>>
    /\ ret[1].Stages[1][1].Stage = [Index |-> 0, Name |-> <<>>, Base |-> <<"a">>]
    /\ ret[1].Stages[2][1].Stage = [Index |-> 1, Name |-> <<"Y">>, Base |-> <<"b">>]
    /\ ret[1].Stages[3][1].Stage = [Index |-> 2, Name |-> <<>>, Base |-> <<"b">>]

ResetNote(base) == [fmt |-> "Stage resets here and pulls %q.", args |-> <<base>>]

AliasNote(alias) ==
    [fmt |-> "Alias %q lets you reference this stage via COPY --from=%s.",
     args |-> <<alias, alias>>]

\* C24: in every stage of a successful report the first layer is the stage's
\* FROM instruction with effect stage start and no other layer of the stage has
\* that effect; its first note is the reset note naming the stage's base image,
\* and it has a second note, about COPY --from=<alias>, exactly when the FROM
\* declared an alias.
C24_FromLayerNotes ==
    Succeeded =>
        \A s \in 1..Len(ret[1].Stages) :
            LET stage == ret[1].Stages[s][1]
                first == stage.Layers[1]
                tokens == Fields(first.Instruction.Args)
                b == FirstNonFlag(tokens, 1)
                declared == b + 2 <= Len(tokens) /\ IsAs(tokens[b + 1])
            IN  /\ stage.Layers # <<>>
                /\ first.Instruction.Keyword = kwFROM
                /\ first.Effect = "stage start"
                /\ \A k \in 2..Len(stage.Layers) :
                       /\ stage.Layers[k].Effect # "stage start"
                       /\ stage.Layers[k].Instruction.Keyword # kwFROM
                /\ first.Notes[1] = ResetNote(stage.Stage.Base)
                /\ stage.Stage.Base = tokens[b]
                /\ declared <=> stage.Stage.Name # <<>>
                /\ IF declared
                   THEN first.Notes = <<ResetNote(tokens[b]), AliasNote(tokens[b + 2])>>
                   ELSE first.Notes = <<ResetNote(tokens[b])>>

C24_Witness ==
    /\ Succeeded
    /\ file = << <<"F","R","O","M"," ","a"," ","A","S"," ","B">>, <<"R","U","N"," ","x">>, <<"F","R","O","M"," ","b">> >>
    /\ ret[1].Stages[1][1].Layers[1].Notes = <<ResetNote(<<"a">>), AliasNote(<<"B">>)>>
    /\ ret[1].Stages[2][1].Layers[1].Notes = <<ResetNote(<<"b">>)>>

\* the source reference of a COPY, scanning its tokens from position i: the
\* <ref> of `--from=<ref>` or the token after `--from`; <<>> when there is none
RECURSIVE CopyRef(_, _)
CopyRef(tokens, i) ==
    IF i > Len(tokens) THEN <<>>
    ELSE IF Len(tokens[i]) >= 7 /\ SubSeq(tokens[i], 1, 7) = <<"-","-","f","r","o","m","=">>
         THEN SubSeq(tokens[i], 8, Len(tokens[i]))
    ELSE IF tokens[i] = <<"-","-","f","r","o","m">> /\ i < Len(tokens) THEN tokens[i + 1]
    ELSE CopyRef(tokens, i + 1)

LocalContextNote ==
    [fmt |-> "Takes files from the build context, so editing those files will invalidate this layer.",
     args |-> <<>>]

ResolvedStageNote(idx, ref) == [fmt |-> CopiesFromStage, args |-> <<Itoa(idx), ref>>]

ExternalNote(ref) ==
    [fmt |-> "Copies from %q. Make sure the stage or image exists.", args |-> <<ref>>]

\* C25: the layer built for a COPY inside a stage carries exactly one note,
\* chosen by the source reference: the resolved-stage note when a --from
\* reference is present and its lowercase form is in the alias table, the
\* external note when it is present and not in the table, the build-context
\* note when there is no reference (no --from, or a --from that is the last
\* token). `--from=<ref>` and `--from <ref>` carry the same reference and so
\* get the same note.
C25_CopyNoteBySource ==
    [][(pc = "build" /\ pos <= Len(instructions) /\ stageIndex >= 0
        /\ instructions[pos].Keyword = kwCOPY) =>
           LET ref == CopyRef(Fields(instructions[pos].Args), 1)
               layers == rep'.Stages[stageIndex + 1][1].Layers
               layer == layers[Len(layers)]
           IN  /\ layer.Instruction = instructions[pos]
               /\ Len(layer.Notes) = 1
               /\ layer.Notes[1] =
                      IF ref = <<>> THEN LocalContextNote
                      ELSE IF ToLower(ref) \in DOMAIN stageAliases
                      THEN ResolvedStageNote(stageAliases[ToLower(ref)], ref)
                      ELSE ExternalNote(ref)
               /\ instructions[pos].Args \in {<<"-","-","f","r","o","m"," ","x"," ","s">>, <<"-","-","f","r","o","m","=","x"," ","s">>} => ref = <<"x">>
               /\ instructions[pos].Args = <<"s"," ","-","-","f","r","o","m">> => ref = <<>>]_vars

C25_Witness ==
    /\ Succeeded
    /\ file = << <<"f","r","o","m"," ","a"," ","a","s"," ","x">>, <<"C","O","P","Y"," ","-","-","f","r","o","m"," ","x"," ","s">>, <<"C","O","P","Y"," ","-","-","f","r","o","m","=","x"," ","s">> >>
    /\ ret[1].Stages[1][1].Layers[2].Notes = <<ResolvedStageNote(0, <<"x">>)>>
    /\ ret[1].Stages[1][1].Layers[3].Notes = <<ResolvedStageNote(0, <<"x">>)>>

\* the builder is about to process a FROM
AtFrom == pc = "build" /\ pos <= Len(instructions) /\ instructions[pos].Keyword = kwFROM

\* C26: the current stage index is -1 until the builder runs; only a step that
\* processes a FROM changes it, and every such step raises it by exactly 1; it
\* never goes down. After every step that does not fail it equals the number of
\* FROM instructions processed so far minus 1 and len(report.Stages) - 1.
C26_StageIndex ==
    /\ [](pc \in {"read", "parse"} => stageIndex = -1)
    /\ [][/\ stageIndex' >= stageIndex
          /\ IF AtFrom THEN stageIndex' = stageIndex + 1 ELSE stageIndex' = stageIndex
          /\ (pc = "build" /\ err' = <<>>) =>
                 /\ stageIndex' = Cardinality({k \in 1..(pos' - 1) :
                                                  instructions[k].Keyword = kwFROM}) - 1
                 /\ stageIndex' = Len(rep'.Stages) - 1]_vars

C26_Witness ==
    /\ Succeeded
    /\ file = << <<"A","R","G"," ","V">>, <<"F","R","O","M"," ","b">>, <<"F","R","O","M"," ","a"," ","A","S"," ","B">> >>
    /\ stageIndex = 1
    /\ Len(ret[1].Stages) = 2

\* the builder is about to process an instruction
AtInstruction == pc = "build" /\ pos <= Len(instructions)

IsPrefix(s, t) == Len(s) <= Len(t) /\ SubSeq(t, 1, Len(s)) = s

\* C27: processing an instruction without failing appends exactly one layer, to
\* Global or to the Layers of the current stage, and nothing else moves: every
\* layer appended before, every earlier stage with its Base, Name, Layers and
\* counters, the identity of the current stage and, once a FROM has been
\* processed, Global stay as they were.
C27_AppendOnly ==
    [][(AtInstruction /\ err' = <<>>) =>
           LET cur == stageIndex' + 1
           IN  /\ rep'.FilePath = rep.FilePath
               /\ LayerCount(rep') = LayerCount(rep) + 1
               /\ IsPrefix(rep.Global, rep'.Global)
               /\ stageIndex >= 0 => rep'.Global = rep.Global
               /\ stageIndex' = -1 =>
                      (Len(rep'.Global) = Len(rep.Global) + 1 /\ rep'.Stages = rep.Stages)
               /\ stageIndex' >= 0 =>
                      (rep'.Global = rep.Global /\ Len(rep'.Stages) = cur)
               /\ \A s \in 1..Len(rep.Stages) :
                      /\ s # cur => rep'.Stages[s] = rep.Stages[s]
                      /\ s = cur =>
                             /\ rep'.Stages[s][1].Stage = rep.Stages[s][1].Stage
                             /\ Len(rep'.Stages[s][1].Layers) = Len(rep.Stages[s][1].Layers) + 1
                             /\ IsPrefix(rep.Stages[s][1].Layers, rep'.Stages[s][1].Layers)]_vars

C27_Witness ==
    /\ pc = "build"
    /\ pos = 4
    /\ file = << <<"F","R","O","M"," ","a"," ","A","S"," ","B">>, <<"F","R","O","M"," ","b">>, <<"R","U","N"," ","x">> >>
    /\ Len(rep.Stages[1][1].Layers) = 1
    /\ Len(rep.Stages[2][1].Layers) = 2
    /\ rep.Stages[2][1].FsLayers = 1

\* the two ways the call can end
Completed == pc = "done" /\ ret # <<>> /\ err = <<>>

Failed == pc = "done" /\ ret = <<>> /\ err # <<>>

\* C28: the pipeline reads forward only (the line counter and the builder's
\* position never go back and every step advances one of them or the phase),
\* and every run ends: with a completed report, or with one error and no
\* report, never both and never neither.
C28_Terminates ==
    /\ [][/\ line' >= line /\ pos' >= pos
          /\ line' + pos' > line + pos \/ pc' # pc
          /\ line' <= Len(file) + 1 /\ pos' <= Len(instructions') + 1]_vars
    /\ [](pc = "done" => (Completed \/ Failed) /\ ~(Completed /\ Failed))
    /\ <>[](Completed \/ Failed)

C28_Witness ==
    /\ Completed
    /\ file = << <<"F","R","O","M"," ","a">>, <<"R"," ","\\">>, <<"F","R","O","M"," ","a">> >>
    /\ line = 4
    /\ pos = 3

\* the stages with index in idxs that <ref> names by alias, in any case
AliasOf(ref, idxs, stages) ==
    {j \in idxs : stages[j + 1][1].Stage.Name # <<>>
                  /\ ToLower(stages[j + 1][1].Stage.Name) = ToLower(ref)}

\* C29: a COPY never resolves to a stage that starts after it. The stage index
\* in a resolved-stage note is at most the index of the stage holding the COPY;
\* a reference to the alias or the index of the COPY's own stage resolves to
\* that stage; a reference that names only the alias of a later stage gets the
\* external-stage-or-image note.
C29_NoForwardResolution ==
    \A s \in 0..(Len(rep.Stages) - 1) :
        \A k \in 1..Len(rep.Stages[s + 1][1].Layers) :
            LET layer == rep.Stages[s + 1][1].Layers[k]
                ref == CopyRef(Fields(layer.Instruction.Args), 1)
                last == Len(rep.Stages) - 1
            IN  layer.Instruction.Keyword = kwCOPY =>
                    /\ Len(layer.Notes) = 1
                    /\ layer.Notes[1].fmt = CopiesFromStage =>
                           \E j \in 0..s : layer.Notes[1].args = <<Itoa(j), ref>>
                    /\ (ref # <<>> /\ (ref = Itoa(s) \/ s \in AliasOf(ref, {s}, rep.Stages))) =>
                           layer.Notes[1] = ResolvedStageNote(s, ref)
                    /\ (/\ ref # <<>>
                        /\ AliasOf(ref, 0..s, rep.Stages) = {}
                        /\ \A j \in 0..s : ref # Itoa(j)
                        /\ AliasOf(ref, (s + 1)..last, rep.Stages) # {}) =>
                           layer.Notes[1] = ExternalNote(ref)

C29_Witness ==
    /\ Succeeded
    /\ file = << <<"F","R","O","M"," ","b">>, <<"C","O","P","Y"," ","-","-","f","r","o","m","=","b"," ","s"," ","d">>, <<"F","R","O","M"," ","a"," ","A","S"," ","B">> >>
    /\ ret[1].Stages[1][1].Layers[2].Notes = <<ExternalNote(<<"b">>)>>
    /\ ret[1].Stages[2][1].Stage.Name = <<"B">>

\* the first instruction of the file is neither FROM nor ARG: a builder-level
\* fault that stands in front of the last line
EarlyBuilderFault ==
    /\ ContentLines # {}
    /\ SetMin(ContentLines) < SetMax(ContentLines)
    /\ LET l == TrimSpace(file[SetMin(ContentLines)])
           word == SubSeq(l, 1, WordLen(l, 1))
       IN  /\ l[1] # "\\"
           /\ ~EqualFold(word, <<"F","R","O","M">>)
           /\ ~EqualFold(word, <<"A","R","G">>)

\* C30: errors come in pipeline order. Nothing is parsed or built before the
\* whole input is assembled; an input with a builder-level fault at its start
\* and a continuation left open at its end fails with the continuation error;
\* the empty-input error is raised after assembly with nothing built yet.
C30_PipelineOrder ==
    /\ (pc \in {"parse", "build"} \/ instructions # <<>>) => line = Len(file) + 1
    /\ (pc \in {"read", "parse"}) => (instructions = <<>> /\ rep = emptyReport)
    /\ (pc = "done" /\ EarlyBuilderFault /\ EndsInContinuation) =>
           (err = <<Unterminated>> /\ ret = <<>> /\ instructions = <<>>)
    /\ (pc = "done" /\ err = <<NoInstructionsFound>>) =>
           (line = Len(file) + 1 /\ instructions = <<>> /\ rep = emptyReport)

====
